---- MODULE Spec2Model ----
(***************************************************************************)
(* A model of elo.py: the performance-rating estimators, the Distribution  *)
(* hierarchy, and the RatingSystem hierarchy with the Elo system.          *)
(*                                                                         *)
(* Python floats are IEEE-754 binary64 numbers.  They are modelled bit for *)
(* bit: a float is a record [s, m, e] standing for s * m * 2^e, with the   *)
(* 53-bit significand m kept as a little-endian sequence of 15-bit limbs   *)
(* (TLC's integers are 32 bits wide), and every arithmetic operation       *)
(* rounds to nearest, ties to even, as the hardware does.  Overflow and    *)
(* subnormals lie outside the ranges the model draws its inputs from.      *)
(***************************************************************************)
EXTENDS Integers, Sequences, FiniteSets, TLC

(***************************************************************************)
(* Natural numbers of arbitrary size: little-endian limb sequences with no *)
(* leading zero limb; <<>> is zero.                                        *)
(***************************************************************************)
LimbBits == 15

Base == 32768

RECURSIVE Pow2(_)
Pow2(n) == IF n = 0 THEN 1 ELSE 2 * Pow2(n - 1)

Limb(a, i) == IF i <= Len(a) THEN a[i] ELSE 0

RECURSIVE BTrim(_)
BTrim(a) ==
  IF a = <<>> THEN a
  ELSE IF a[Len(a)] = 0 THEN BTrim(SubSeq(a, 1, Len(a) - 1)) ELSE a

RECURSIVE BFromInt(_)
BFromInt(n) == IF n = 0 THEN <<>> ELSE <<n % Base>> \o BFromInt(n \div Base)

RECURSIVE BToInt(_)
BToInt(a) == IF a = <<>> THEN 0 ELSE a[1] + Base * BToInt(Tail(a))

RECURSIVE BAddC(_, _, _, _)
BAddC(a, b, i, c) ==
  IF i > Len(a) /\ i > Len(b) THEN (IF c = 0 THEN <<>> ELSE <<c>>)
  ELSE LET t == Limb(a, i) + Limb(b, i) + c
       IN  <<t % Base>> \o BAddC(a, b, i + 1, t \div Base)

BAdd(a, b) == BAddC(a, b, 1, 0)

RECURSIVE BSubC(_, _, _, _)
BSubC(a, b, i, c) ==
  IF i > Len(a) THEN <<>>
  ELSE LET t == a[i] - Limb(b, i) - c
       IN  IF t < 0 THEN <<t + Base>> \o BSubC(a, b, i + 1, 1)
           ELSE <<t>> \o BSubC(a, b, i + 1, 0)

\* a - b, for a >= b
BSub(a, b) == BTrim(BSubC(a, b, 1, 0))

RECURSIVE BCmpAt(_, _, _)
BCmpAt(a, b, i) ==
  IF i = 0 THEN 0
  ELSE IF a[i] < b[i] THEN -1
  ELSE IF a[i] > b[i] THEN 1
  ELSE BCmpAt(a, b, i - 1)

\* -1, 0, 1 as a < b, a = b, a > b
BCmp(a, b) ==
  IF Len(a) < Len(b) THEN -1
  ELSE IF Len(a) > Len(b) THEN 1
  ELSE BCmpAt(a, b, Len(a))

RECURSIVE BMulSmallC(_, _, _, _)
BMulSmallC(a, k, i, c) ==
  IF i > Len(a) THEN (IF c = 0 THEN <<>> ELSE <<c>>)
  ELSE LET t == a[i] * k + c
       IN  <<t % Base>> \o BMulSmallC(a, k, i + 1, t \div Base)

\* a * k, for 0 <= k < Base
BMulSmall(a, k) == IF k = 0 THEN <<>> ELSE BMulSmallC(a, k, 1, 0)

RECURSIVE Zeros(_)
Zeros(n) == IF n = 0 THEN <<>> ELSE <<0>> \o Zeros(n - 1)

BShlLimbs(a, n) == IF a = <<>> THEN a ELSE Zeros(n) \o a

RECURSIVE BMulAt(_, _, _)
BMulAt(a, b, i) ==
  IF i > Len(b) THEN <<>>
  ELSE BAdd(BShlLimbs(BMulSmall(a, b[i]), i - 1), BMulAt(a, b, i + 1))

BMul(a, b) == BMulAt(a, b, 1)

RECURSIVE BDivSmallAt(_, _, _, _)
BDivSmallAt(a, k, i, r) ==
  IF i = 0 THEN <<>>
  ELSE LET t == r * Base + a[i]
       IN  BDivSmallAt(a, k, i - 1, t % k) \o <<t \div k>>

\* a \div k, for 0 < k <= Base
BDivSmall(a, k) == BTrim(BDivSmallAt(a, k, Len(a), 0))

BShl(a, n) ==
  BMulSmall(BShlLimbs(a, n \div LimbBits), Pow2(n % LimbBits))

BShr(a, n) ==
  IF n \div LimbBits >= Len(a) THEN <<>>
  ELSE BDivSmall(SubSeq(a, n \div LimbBits + 1, Len(a)), Pow2(n % LimbBits))

RECURSIVE IntBitLen(_)
IntBitLen(n) == IF n = 0 THEN 0 ELSE 1 + IntBitLen(n \div 2)

BBitLen(a) ==
  IF a = <<>> THEN 0 ELSE LimbBits * (Len(a) - 1) + IntBitLen(a[Len(a)])

\* bit i of a, bit 0 the least significant
BBit(a, i) == (Limb(a, i \div LimbBits + 1) \div Pow2(i % LimbBits)) % 2

\* whether a mod 2^n is nonzero
BLowNonzero(a, n) ==
  \/ \E i \in 1..(n \div LimbBits) : Limb(a, i) # 0
  \/ Limb(a, n \div LimbBits + 1) % Pow2(n % LimbBits) # 0

\* one limb of a quotient: the q in 0..Base-1 with q * b <= r < (q + 1) * b,
\* for r < b * Base and b with its top bit set in its top limb.  The estimate
\* from the top two limbs of r is at most 2 too large.
QLimb(r, b) ==
  LET n   == Len(b)
      t   == (Limb(r, n + 1) * Base + Limb(r, n)) \div b[n]
      est == IF t > Base - 1 THEN Base - 1 ELSE t
  IN  IF BCmp(BMulSmall(b, est), r) <= 0 THEN est
      ELSE IF BCmp(BMulSmall(b, est - 1), r) <= 0 THEN est - 1
      ELSE est - 2

\* TLC hands an operator its arguments unevaluated.  A loop evaluates its
\* running value before it goes round again, which keeps the evaluation
\* stack as shallow as the loop body.
Evaluated(v) == v = v

\* one step of schoolbook long division: qr = <<quotient, remainder>> of the
\* limbs above limb j of a, extended by limb j
BDivStep(a, b, j, qr) ==
  LET r == BTrim(<<a[j]>> \o qr[2])
      q == QLimb(r, b)
  IN  <<BTrim(<<q>> \o qr[1]), BSub(r, BMulSmall(b, q))>>

RECURSIVE BDivLoop(_, _, _, _)
BDivLoop(a, b, j, qr) ==
  IF j = 0 THEN qr
  ELSE LET nxt == BDivStep(a, b, j, qr)
       IN  IF Evaluated(nxt) THEN BDivLoop(a, b, j - 1, nxt) ELSE nxt

\* <<a \div b, a % b>>, for b > 0
BDivMod(a, b) ==
  LET sh == LimbBits - IntBitLen(b[Len(b)])
      an == BShl(a, sh)
      bn == BShl(b, sh)
      qr == IF Evaluated(an) /\ Evaluated(bn)
            THEN BDivLoop(an, bn, Len(an), << <<>>, <<>> >>)
            ELSE << <<>>, <<>> >>
  IN  <<qr[1], BShr(qr[2], sh)>>

\* Newton's iteration for the integer square root, from a start x >= sqrt(n)
RECURSIVE BSqrtFrom(_, _)
BSqrtFrom(n, x) ==
  LET y == BShr(BAdd(x, BDivMod(n, x)[1]), 1)
  IN  IF BCmp(y, x) >= 0 THEN x ELSE BSqrtFrom(n, y)

\* the largest r with r * r <= n
BSqrt(n) ==
  LET x == BShl(<<1>>, (BBitLen(n) + 1) \div 2)
  IN  IF n = <<>> THEN <<>>
      ELSE IF Evaluated(x) THEN BSqrtFrom(n, x) ELSE x

(***************************************************************************)
(* binary64 floats: [s |-> sign in {-1, 0, 1}, m |-> significand with      *)
(* exactly MantBits bits (<<>> for zero), e |-> exponent], value s*m*2^e.  *)
(***************************************************************************)
MantBits == 53

FZero == [s |-> 0, m |-> <<>>, e |-> 0]

\* s * (N + a fraction in (0,1) if sticky) * 2^e rounded to nearest, ties to
\* even.  With sticky set N has more than MantBits bits.
FRound(s, N, sticky, e) ==
  IF N = <<>> \/ s = 0 THEN FZero
  ELSE LET L == BBitLen(N)
       IN  IF L <= MantBits
           THEN [s |-> s, m |-> BShl(N, MantBits - L), e |-> e - (MantBits - L)]
           ELSE LET sh   == L - MantBits
                    q    == BShr(N, sh)
                    half == BBit(N, sh - 1) = 1
                    rest == sticky \/ BLowNonzero(N, sh - 1)
                    odd  == q[1] % 2 = 1
                    q1   == IF half /\ (rest \/ odd) THEN BAdd(q, <<1>>) ELSE q
                IN  IF BBitLen(q1) > MantBits
                    THEN [s |-> s, m |-> BShr(q1, 1), e |-> e + sh + 1]
                    ELSE [s |-> s, m |-> q1, e |-> e + sh]

\* int -> float
FInt(n) ==
  IF n = 0 THEN FZero
  ELSE IF n < 0 THEN FRound(-1, BFromInt(-n), FALSE, 0)
  ELSE FRound(1, BFromInt(n), FALSE, 0)

FNeg(x) == [x EXCEPT !.s = -x.s]

\* the exponents of two operands further apart than this leave the smaller one
\* below the rounding position of the larger
FarApart == 64

\* x + y for x, y nonzero of the signs given
FAddMag(x, y) ==
  IF x.e - y.e > FarApart
  THEN FRound(x.s, IF x.s = y.s THEN BShl(x.m, 2) ELSE BSub(BShl(x.m, 2), <<1>>),
              TRUE, x.e - 2)
  ELSE LET e == IF x.e < y.e THEN x.e ELSE y.e
           A == BShl(x.m, x.e - e)
           B == BShl(y.m, y.e - e)
           c == BCmp(A, B)
       IN  IF x.s = y.s THEN FRound(x.s, BAdd(A, B), FALSE, e)
           ELSE IF c = 0 THEN FZero
           ELSE IF c > 0 THEN FRound(x.s, BSub(A, B), FALSE, e)
           ELSE FRound(y.s, BSub(B, A), FALSE, e)

FAdd(x, y) ==
  IF x.s = 0 THEN y
  ELSE IF y.s = 0 THEN x
  ELSE IF x.e >= y.e THEN FAddMag(x, y) ELSE FAddMag(y, x)

FSub(x, y) == FAdd(x, FNeg(y))

FMul(x, y) == FRound(x.s * y.s, BMul(x.m, y.m), FALSE, x.e + y.e)

\* guard bits of a quotient or a root beyond the significand
GuardBits == 3

\* x / y for y nonzero
FDiv(x, y) ==
  IF x.s = 0 THEN FZero
  ELSE LET qr == BDivMod(BShl(x.m, MantBits + GuardBits), y.m)
       IN  FRound(x.s * y.s, qr[1], qr[2] # <<>>, x.e - y.e - (MantBits + GuardBits))

\* sqrt(x) for x >= 0
FSqrt(x) ==
  IF x.s = 0 THEN FZero
  ELSE LET k == MantBits + 2 * GuardBits + ((x.e + MantBits) % 2)
           N == BShl(x.m, k)
           r == BSqrt(N)
       IN  FRound(1, r, BMul(r, r) # N, (x.e - k) \div 2)

\* -1, 0, 1 as x < y, x = y, x > y
FCmp(x, y) == FSub(x, y).s

\* int(x): truncation toward zero
FTrunc(x) ==
  IF x.s = 0 THEN 0
  ELSE x.s * BToInt(IF x.e >= 0 THEN BShl(x.m, x.e) ELSE BShr(x.m, -x.e))

(***************************************************************************)
(* math.exp: the exponential correctly rounded.  exp(|x|) is computed in   *)
(* fixed point with ExpFrac fractional bits, far more than the significand *)
(* holds: the Taylor series of exp(|x| / 2^ExpHalvings), squared           *)
(* ExpHalvings times; exp(-|x|) is its reciprocal.                         *)
(***************************************************************************)
ExpFrac == 120

ExpHalvings == 8

RECURSIVE ExpSeries(_, _, _, _)
ExpSeries(t, term, i, sum) ==
  IF term = <<>> THEN sum
  ELSE LET nsum == BAdd(sum, term)
           nterm == BDivSmall(BShr(BMul(term, t), ExpFrac), i)
       IN  IF Evaluated(nsum) THEN ExpSeries(t, nterm, i + 1, nsum) ELSE nsum

RECURSIVE ExpSquare(_, _)
ExpSquare(v, k) ==
  IF k = 0 \/ v = <<>> THEN v
  ELSE ExpSquare(BShr(BMul(v, v), ExpFrac), k - 1)

\* exp(|x|) * 2^ExpFrac, truncated
ExpFixed(x) ==
  LET sh == x.e + ExpFrac - ExpHalvings
      t  == IF sh >= 0 THEN BShl(x.m, sh) ELSE BShr(x.m, -sh)
  IN  ExpSquare(ExpSeries(t, BShl(<<1>>, ExpFrac), 1, <<>>), ExpHalvings)

ExpValue(x) ==
  IF x.s = 0 THEN FInt(1)
  ELSE IF x.s > 0 THEN FRound(1, ExpFixed(x), TRUE, -ExpFrac)
  ELSE FRound(1, BDivMod(BShl(<<1>>, 2 * ExpFrac), ExpFixed(x))[1], TRUE, -ExpFrac)

(***************************************************************************)
(* How a call ends: it returns a value or it raises an exception.          *)
(***************************************************************************)
Return(v) == [kind |-> "return", value |-> v]

Raise(exc) == [kind |-> "raise", exc |-> exc]

NoCall == [kind |-> "none"]

(***************************************************************************)
(* perf_fide                                                               *)
(***************************************************************************)
dp ==
  << 800, 677, 589, 538, 501, 470, 444, 422, 401, 383,
     366, 351, 336, 322, 309, 296, 284, 273, 262, 251,
     240, 230, 220, 211, 202, 193, 184, 175, 166, 158,
     149, 141, 133, 125, 117, 110, 102, 95,  87,  80,
     72,  65,  57,  50,  43,  36,  29,  21,  14,  7,
     0 >>

\* list[i] of Python: indices count from 0, negative ones from the end
PyIndexOk(list, i) == -Len(list) <= i /\ i < Len(list)

PyItem(list, i) == IF i >= 0 THEN list[i + 1] ELSE list[Len(list) + i + 1]

\* p = int((score / n_games) * 100), for n_games # 0
Percent(score, n_games) ==
  FTrunc(FMul(FDiv(FInt(score), FInt(n_games)), FInt(100)))

\* the index into dp after "if p > 50: p = 100 - p"
MirrorSlot(p) == 100 - p

Mirrored(p) == IF p > 50 THEN MirrorSlot(p) ELSE p

MirrorSign(p) == IF p > 50 THEN -1 ELSE 1

PerfFide(mean_rating, score, n_games) ==
  IF n_games = 0 THEN Raise("ZeroDivisionError")
  ELSE LET p == Percent(score, n_games)
       IN  IF ~PyIndexOk(dp, Mirrored(p)) THEN Raise("IndexError")
           ELSE Return(FAdd(mean_rating, FInt(MirrorSign(p) * PyItem(dp, Mirrored(p)))))

(***************************************************************************)
(* Constants of the math module: math.pi and math.log(10), the floats      *)
(* nearest to pi and to ln 10.                                             *)
(***************************************************************************)
Pi == [s |-> 1, m |-> <<11544, 10376, 2029, 201>>, e |-> -51]

Ln10 == [s |-> 1, m |-> <<21782, 30570, 11974, 147>>, e |-> -51]

One == FInt(1)

\* Q = 400. / log(10)
EloQ == FDiv(FInt(400), Ln10)

\* the values the model gives to ratings
RatingValues == {FInt(1000), FInt(1125), FInt(1600), FInt(200000)}

\* the largest argument for which math.exp returns (709.782712893384), and the
\* smallest for which its result is not 0.0 (-745.1332191019411)
ExpMax == [s |-> 1, m |-> <<14831, 32244, 14603, 177>>, e |-> -43]

ExpMin == [s |-> -1, m |-> <<12369, 10842, 9283, 186>>, e |-> -43]

\* exp(x).  TLC evaluates a constant once: the values of exp at the arguments
\* the Elo system passes it for these ratings are kept in a table.
ExpArgs ==
  {FDiv(FNeg(FSub(x, m)), EloQ) : x \in RatingValues, m \in RatingValues \cup {FZero}}

InExpRange(x) == FCmp(x, ExpMax) <= 0 /\ FCmp(x, ExpMin) >= 0

ExpTable == [x \in ExpArgs |-> IF InExpRange(x) THEN ExpValue(x) ELSE FZero]

FExp(x) == IF x \in ExpArgs THEN ExpTable[x] ELSE ExpValue(x)

\* math.exp(x): OverflowError above ExpMax, 0.0 below ExpMin.  (Between ExpMin
\* and about -708.4 the result is subnormal; no argument used here lies there.)
MathExp(x) ==
  IF FCmp(x, ExpMax) > 0 THEN Raise("OverflowError")
  ELSE IF InExpRange(x) THEN Return(FExp(x))
  ELSE Return(FZero)

\* x ** 2
Sqr(x) == FMul(x, x)

(***************************************************************************)
(* Distribution, NormalDistribution, LogisticDistribution.  An object is a *)
(* record of its attributes: _mean, _variance and, for Logistic, _scale.   *)
(***************************************************************************)
NewDistribution(cls, mean, variance) ==
  [cls |-> cls, mean |-> mean, variance |-> variance]

NewNormal(mean, variance) == NewDistribution("Normal", mean, variance)

\* ((scale * pi) ** 2) / 3
ScaleToVariance(scale) == FDiv(Sqr(FMul(scale, Pi)), FInt(3))

NewLogistic(mean, scale) ==
  [cls |-> "Logistic", mean |-> mean, variance |-> ScaleToVariance(scale),
   scale |-> scale]

\* a setter's effect: the object after it, and how the assignment ended
Effect(obj, out) == [obj |-> obj, out |-> out]

None == "None"

SetMean(d, mean) == Effect([d EXCEPT !.mean = mean], Return(None))

SetScale(d, scale) ==
  Effect([d EXCEPT !.scale = scale, !.variance = ScaleToVariance(scale)],
         Return(None))

\* the argument of sqrt in the variance setter: (3 * variance) / pi ** 2
VarianceToScaleSquared(variance) == FDiv(FMul(FInt(3), variance), Sqr(Pi))

\* LogisticDistribution.variance = variance: _variance is assigned first,
\* then _scale from a sqrt that raises ValueError on a negative argument
LogisticSetVariance(d, variance) ==
  LET q == VarianceToScaleSquared(variance)
      d1 == [d EXCEPT !.variance = variance]
  IN  IF q.s < 0 THEN Effect(d1, Raise("ValueError"))
      ELSE Effect([d1 EXCEPT !.scale = FSqrt(q)], Return(None))

SetVariance(d, variance) ==
  IF d.cls = "Logistic" THEN LogisticSetVariance(d, variance)
  ELSE Effect([d EXCEPT !.variance = variance], Return(None))

\* the exponent b = -(x - mean) / (2 * variance) of NormalDistribution.pdf
NormalExponent(d, x) ==
  FDiv(FNeg(FSub(x, d.mean)), FMul(FInt(2), d.variance))

\* exp(b) / a, exp(b) having overflowed or not
PdfQuotient(eb, a) ==
  IF eb.kind = "raise" THEN eb ELSE Return(FDiv(eb.value, a))

NormalPdf(d, x) ==
  LET r == FMul(FMul(FInt(2), Pi), d.variance)
  IN  IF r.s < 0 THEN Raise("ValueError")
      ELSE IF d.variance.s = 0 THEN Raise("ZeroDivisionError")
      ELSE PdfQuotient(MathExp(NormalExponent(d, x)), FSqrt(r))

\* 1. / (1. + a), exp having overflowed or not
CdfQuotient(a) ==
  IF a.kind = "raise" THEN a ELSE Return(FDiv(One, FAdd(One, a.value)))

\* a = exp(-(x - mean) / scale); 1. / (1. + a)
LogisticCdf(d, x) ==
  IF d.scale.s = 0 THEN Raise("ZeroDivisionError")
  ELSE CdfQuotient(MathExp(FDiv(FNeg(FSub(x, d.mean)), d.scale)))

(***************************************************************************)
(* RatingSystem and its subclasses.  A class body defines some methods and *)
(* inherits the others from its base class.                                *)
(***************************************************************************)
Classes ==
  {"RatingSystem", "EloRatingSystem", "GlickoRatingSystem", "Glicko2RatingSystem"}

Subclasses == Classes \ {"RatingSystem"}

\* the placeholders derived from the Elo system
ParentElo ==
  [c \in Subclasses |->
     IF c = "EloRatingSystem" THEN "RatingSystem" ELSE "EloRatingSystem"]

Parent == [c \in Subclasses |-> "RatingSystem"]

Defines ==
  [c \in Classes |->
     IF c \in {"RatingSystem", "EloRatingSystem"}
     THEN {"__init__", "expected", "adjustment"}
     ELSE {}]

\* the class whose body holds the method a call on an instance of cls runs
RECURSIVE Resolve(_, _)
Resolve(cls, method) ==
  IF method \in Defines[cls] THEN cls ELSE Resolve(Parent[cls], method)

\* cls(): RatingSystem.__init__ sets _dist to None, EloRatingSystem.__init__
\* then sets it to LogisticDistribution(0., Q)
NewSystem(cls) ==
  [cls |-> cls,
   dist |-> IF Resolve(cls, "__init__") = "EloRatingSystem"
            THEN NewLogistic(FZero, EloQ) ELSE None]

\* the mean assigned to a local name, not to the distribution
ExpectedAssignLocal(sys, b) == sys

\* self.dist.mean = b.value
ExpectedAssign(sys, b) == [sys EXCEPT !.dist = SetMean(sys.dist, b).obj]

\* return self.dist.cdf(a.value)
ExpectedReturn(sys, a) == LogisticCdf(sys.dist, a)

\* the cdf evaluated before the mean is rebound
EloExpectedStale(sys, a, b) ==
  Effect(ExpectedAssign(sys, b), ExpectedReturn(sys, a))

EloExpected(sys, a, b) ==
  LET s1 == ExpectedAssign(sys, b)
  IN  Effect(s1, ExpectedReturn(s1, a))

\* sys.expected(a, b), a and b the values of the two ratings
Expected(sys, a, b) ==
  IF Resolve(sys.cls, "expected") = "EloRatingSystem" THEN EloExpected(sys, a, b)
  ELSE Effect(sys, Raise("NotImplementedError"))

DefaultK == 32

\* k * (ex - score)
EloAdjustmentFlipped(ex, score, k) == Return(FMul(k, FSub(ex, score)))

\* k * (score - ex)
EloAdjustment(ex, score, k) == Return(FMul(k, FSub(score, ex)))

\* cls.adjustment(ex, score, k), a static method; k is <<>> when the caller
\* leaves it out and <<n>> when the caller passes n
Adjustment(cls, ex, score, k) ==
  IF Resolve(cls, "adjustment") = "EloRatingSystem"
  THEN EloAdjustment(ex, score, FInt(IF k = <<>> THEN DefaultK ELSE k[1]))
  ELSE Raise("NotImplementedError")

(***************************************************************************)
(* The state.                                                              *)
(*   fide     the last perf_fide call: its arguments and how it ended      *)
(*   dist     a Distribution object;  distOp  the last operation on it     *)
(*   systems  one instance of each RatingSystem class                      *)
(*   ratings  the Rating objects, by name, each with its value             *)
(*   last     the last expected / adjustment call: the instance, the       *)
(*            arguments, the instances as they were before, how it ended   *)
(*   prev     the call before last, in brief                               *)
(*   pc, targ, tret   two threads calling expected on the shared Elo       *)
(*            instance: where each is, its arguments, what it returned     *)
(*   alone    whether a thread's call ran with no step of the other        *)
(*            thread's call between its two statements                     *)
(***************************************************************************)
VARIABLES fide, dist, distOp, systems, ratings, last, prev, pc, targ, tret, alone

vars == <<fide, dist, distOp, systems, ratings, last, prev, pc, targ, tret, alone>>

fideVars == <<fide>>

distVars == <<dist, distOp>>

sysVars == <<systems, ratings, last, prev>>

raceVars == <<pc, targ, tret, alone>>

\* the bounds of the inputs
MaxGames == 50

MeanRatings == {0, 2000}

DistMeans == {FZero, One}

DistSpreads == {FInt(-1), FZero, One, FInt(5)}

PdfPoints == {FInt(-1), FZero, One, FInt(2)}

RatingIds == {"a", "b"}

Threads == {1, 2}

Other(t) == 3 - t

(***************************************************************************)
(* perf_fide(mean_rating, score, n_games): the caller has chosen the       *)
(* arguments; the call computes the outcome.                               *)
(***************************************************************************)
FideArgs(m, s, n) == [mean_rating |-> m, score |-> s, n_games |-> n, out |-> NoCall]

CallPerfFide ==
  /\ fide # NoCall
  /\ fide.out = NoCall
  /\ fide' = [fide EXCEPT !.out = PerfFide(FInt(fide.mean_rating), fide.score, fide.n_games)]
  /\ UNCHANGED <<distVars, sysVars, raceVars>>

InitFide ==
  /\ \E m \in MeanRatings, n \in 0..MaxGames : \E s \in 0..(n + 1) :
       fide = FideArgs(m, s, n)
  /\ dist = NewNormal(FZero, One)
  /\ distOp = NoCall
  /\ systems = [c \in Classes |-> NewSystem(c)]
  /\ ratings = [r \in RatingIds |-> FInt(1600)]
  /\ last = NoCall
  /\ prev = NoCall
  /\ pc = [t \in Threads |-> "idle"]
  /\ targ = [t \in Threads |-> <<>>]
  /\ tret = [t \in Threads |-> NoCall]
  /\ alone = [t \in Threads |-> TRUE]

NextFide == CallPerfFide

SpecFide == InitFide /\ [][NextFide]_vars

(***************************************************************************)
(* A Distribution object: construction, the property setters, pdf.         *)
(***************************************************************************)
Op(name, arg, out) == [op |-> name, arg |-> arg, out |-> out]

ConstructNormal(m, v) ==
  /\ dist' = NewNormal(m, v)
  /\ distOp' = Op("NormalDistribution", <<m, v>>, Return(None))
  /\ UNCHANGED <<fideVars, sysVars, raceVars>>

ConstructLogistic(m, sc) ==
  /\ dist' = NewLogistic(m, sc)
  /\ distOp' = Op("LogisticDistribution", <<m, sc>>, Return(None))
  /\ UNCHANGED <<fideVars, sysVars, raceVars>>

Assign(name, eff, arg) ==
  /\ dist' = eff.obj
  /\ distOp' = Op(name, arg, eff.out)
  /\ UNCHANGED <<fideVars, sysVars, raceVars>>

AssignMean(m) == Assign("mean=", SetMean(dist, m), m)

AssignVariance(v) == Assign("variance=", SetVariance(dist, v), v)

AssignScale(sc) ==
  /\ dist.cls = "Logistic"
  /\ Assign("scale=", SetScale(dist, sc), sc)

CallPdf(x) ==
  /\ dist.cls = "Normal"
  /\ distOp' = Op("pdf", x, NormalPdf(dist, x))
  /\ UNCHANGED <<dist, fideVars, sysVars, raceVars>>

InitDist ==
  /\ fide = NoCall
  /\ dist = NewNormal(FZero, One)
  /\ distOp = NoCall
  /\ systems = [c \in Classes |-> NewSystem(c)]
  /\ ratings = [r \in RatingIds |-> FInt(1600)]
  /\ last = NoCall
  /\ prev = NoCall
  /\ pc = [t \in Threads |-> "idle"]
  /\ targ = [t \in Threads |-> <<>>]
  /\ tret = [t \in Threads |-> NoCall]
  /\ alone = [t \in Threads |-> TRUE]

NextDist ==
  \/ \E m \in DistMeans, v \in DistSpreads : ConstructNormal(m, v)
  \/ \E m \in DistMeans, sc \in DistSpreads : ConstructLogistic(m, sc)
  \/ \E m \in DistMeans : AssignMean(m)
  \/ \E v \in DistSpreads : AssignVariance(v)
  \/ \E sc \in DistSpreads : AssignScale(sc)
  \/ \E x \in PdfPoints : CallPdf(x)

SpecDist == InitDist /\ [][NextDist]_vars

(***************************************************************************)
(* Calls of expected and adjustment, one after the other.                  *)
(***************************************************************************)
\* ex and score are given in quarters: these floats are exact
Quarters(n) == FDiv(FInt(n), FInt(4))

CallExpected(c, a, b) ==
  LET eff == Expected(systems[c], ratings[a], ratings[b])
  IN  /\ systems' = [systems EXCEPT ![c] = eff.obj]
      /\ last' = [sys |-> c, method |-> "expected", a |-> a, b |-> b,
                  va |-> ratings[a], vb |-> ratings[b],
                  before |-> systems, out |-> eff.out]
      /\ UNCHANGED <<ratings, fideVars, distVars, raceVars>>

CallAdjustment(c, ex, score, k) ==
  /\ last' = [sys |-> c, method |-> "adjustment", ex |-> ex, score |-> score,
              k |-> k, before |-> systems,
              out |-> Adjustment(c, Quarters(ex), Quarters(score), k)]
  /\ UNCHANGED <<systems, ratings, fideVars, distVars, raceVars>>

\* what is kept of the call before the last one
Brief(call) ==
  IF call = NoCall THEN NoCall
  ELSE IF call.method = "expected"
  THEN [method |-> "expected", a |-> call.a, b |-> call.b, out |-> call.out]
  ELSE [method |-> "adjustment"]

InitElo ==
  /\ fide = NoCall
  /\ dist = NewNormal(FZero, One)
  /\ distOp = NoCall
  /\ systems = [c \in Classes |-> NewSystem(c)]
  /\ ratings \in [RatingIds -> RatingValues]
  /\ last = NoCall
  /\ prev = NoCall
  /\ pc = [t \in Threads |-> "idle"]
  /\ targ = [t \in Threads |-> <<>>]
  /\ tret = [t \in Threads |-> NoCall]
  /\ alone = [t \in Threads |-> TRUE]

\* the Elo instance alone, with the call before the last one remembered
NextElo ==
  \/ \E a \in RatingIds, b \in RatingIds :
       CallExpected("EloRatingSystem", a, b) /\ prev' = Brief(last)
  \/ \E score \in {0, 4} :
       CallAdjustment("EloRatingSystem", 2, score, <<>>) /\ prev' = Brief(last)

SpecElo == InitElo /\ [][NextElo]_vars

AdjustEx == {1, 2}

AdjustScores == {-4, 0, 2, 4, 8}

AdjustK == {<<>>, <<16>>, <<32>>}

InitSystems ==
  /\ fide = NoCall
  /\ dist = NewNormal(FZero, One)
  /\ distOp = NoCall
  /\ systems = [c \in Classes |-> NewSystem(c)]
  /\ ratings = [r \in RatingIds |-> IF r = "a" THEN FInt(1600) ELSE FInt(1000)]
  /\ last = NoCall
  /\ prev = NoCall
  /\ pc = [t \in Threads |-> "idle"]
  /\ targ = [t \in Threads |-> <<>>]
  /\ tret = [t \in Threads |-> NoCall]
  /\ alone = [t \in Threads |-> TRUE]

\* an instance of every class
NextSystems ==
  \/ \E c \in Classes, a \in RatingIds, b \in RatingIds :
       CallExpected(c, a, b) /\ UNCHANGED prev
  \/ \E c \in Classes, ex \in AdjustEx, score \in AdjustScores, k \in AdjustK :
       CallAdjustment(c, ex, score, k) /\ UNCHANGED prev

SpecSystems == InitSystems /\ [][NextSystems]_vars

(***************************************************************************)
(* Two threads calling expected on the one Elo instance.  A thread may be  *)
(* switched out between the two statements of expected.                    *)
(***************************************************************************)
Elo == "EloRatingSystem"

\* a caller that starts without assigning the mean
BeginUnassigned(t, a, b) ==
  /\ pc[t] = "idle"
  /\ targ' = [targ EXCEPT ![t] = <<a, b>>]
  /\ pc' = [pc EXCEPT ![t] = "assigned"]
  /\ alone' = IF pc[Other(t)] = "assigned" THEN [u \in Threads |-> FALSE]
              ELSE [alone EXCEPT ![t] = TRUE]
  /\ UNCHANGED <<systems, tret, ratings, last, prev, fideVars, distVars>>

Begin(t, a, b) ==
  /\ pc[t] = "idle"
  /\ systems' = [systems EXCEPT ![Elo] = ExpectedAssign(@, ratings[b])]
  /\ targ' = [targ EXCEPT ![t] = <<a, b>>]
  /\ pc' = [pc EXCEPT ![t] = "assigned"]
  /\ alone' = IF pc[Other(t)] = "assigned" THEN [u \in Threads |-> FALSE]
              ELSE [alone EXCEPT ![t] = TRUE]
  /\ UNCHANGED <<tret, ratings, last, prev, fideVars, distVars>>

Finish(t) ==
  /\ pc[t] = "assigned"
  /\ tret' = [tret EXCEPT ![t] = ExpectedReturn(systems[Elo], ratings[targ[t][1]])]
  /\ pc' = [pc EXCEPT ![t] = "done"]
  /\ UNCHANGED <<systems, targ, alone, ratings, last, prev, fideVars, distVars>>

\* the caller takes the result and may call again
Reset(t) ==
  /\ pc[t] = "done"
  /\ pc' = [pc EXCEPT ![t] = "idle"]
  /\ tret' = [tret EXCEPT ![t] = NoCall]
  /\ targ' = [targ EXCEPT ![t] = <<>>]
  /\ UNCHANGED <<systems, alone, ratings, last, prev, fideVars, distVars>>

NextRace ==
  \/ \E t \in Threads, a \in RatingIds, b \in RatingIds : Begin(t, a, b)
  \/ \E t \in Threads : Finish(t)
  \/ \E t \in Threads : Reset(t)

SpecRace == InitElo /\ [][NextRace]_vars

(***************************************************************************)
(* The properties.                                                         *)
(***************************************************************************)
FAbs(x) == [x EXCEPT !.s = x.s * x.s]

Half == Quarters(2)

FideDone == fide # NoCall /\ fide.out # NoCall

\* n_games >= 1 and 0 <= score <= n_games
FideValid == FideDone /\ fide.n_games >= 1 /\ fide.score <= fide.n_games

FloorPercent(score, n_games) == (100 * score) \div n_games

\* C1: for n_games >= 1 and 0 <= score <= n_games, perf_fide returns
\* mean_rating + dp[p] when p <= 50 and mean_rating - dp[100 - p] when p > 50,
\* with p = floor(100 * score / n_games), and the index used is within 0..50
C1_PerfFideUsesFloorPercent ==
  FideValid =>
    LET p == FloorPercent(fide.score, fide.n_games)
        d == IF p <= 50 THEN dp[p + 1] ELSE -dp[100 - p + 1]
    IN  /\ fide.out = Return(FInt(fide.mean_rating + d))
        /\ Mirrored(Percent(fide.score, fide.n_games)) \in 0..50

\* the rating differential of an outcome: what perf_fide returned minus the mean
Differential(out, m) == FSub(out.value, FInt(m))

ComplementNegates ==
  Differential(fide.out, fide.mean_rating) =
    FNeg(Differential(PerfFide(FInt(fide.mean_rating), fide.n_games - fide.score,
                               fide.n_games),
                      fide.mean_rating))

\* C10: for n_games >= 1 and 0 <= score <= n_games, the differential of score
\* out of n_games is the negated differential of n_games - score
C10_ComplementNegatesAlways == FideValid => ComplementNegates

IsLogistic == dist.cls = "Logistic"

\* C3: a LogisticDistribution always holds variance = (scale * pi)^2 / 3,
\* whether an assignment returned or raised; scale = s makes variance
\* (s * pi)^2 / 3 and variance = v makes scale sqrt(3v / pi^2)
C3_ScaleAndVarianceInSync ==
  IsLogistic =>
    /\ dist.variance = ScaleToVariance(dist.scale)
    /\ distOp # NoCall /\ distOp.op = "scale=" =>
         dist.variance = ScaleToVariance(distOp.arg)
    /\ distOp # NoCall /\ distOp.op = "variance=" /\ distOp.out.kind = "return" =>
         dist.scale = FSqrt(VarianceToScaleSquared(distOp.arg))

\* C4: the variance of every Distribution is strictly positive in every state
C4_VariancePositive == dist.variance.s = 1

\* exp(-(x - mean)^2 / (2 * variance)) / sqrt(2 * pi * variance)
Gaussian(d, x) ==
  FDiv(FExp(FDiv(FNeg(Sqr(FSub(x, d.mean))), FMul(FInt(2), d.variance))),
       FSqrt(FMul(FMul(FInt(2), Pi), d.variance)))

\* C8: for variance > 0, NormalDistribution.pdf(x) is the Gaussian density, and
\* so takes the same value at x and at its mirror image 2 * mean - x
C8_PdfIsGaussian ==
  distOp # NoCall /\ distOp.op = "pdf" /\ dist.variance.s = 1 =>
    /\ distOp.out = Return(Gaussian(dist, distOp.arg))
    /\ distOp.out = NormalPdf(dist, FSub(FAdd(dist.mean, dist.mean), distOp.arg))

IsExpected(call) == call # NoCall /\ call.method = "expected"

IsAdjustment(call) == call # NoCall /\ call.method = "adjustment"

\* the last two calls were expected(x, y) and then expected(y, x)
SwappedPair ==
  /\ IsExpected(prev) /\ IsExpected(last)
  /\ last.a = prev.b /\ last.b = prev.a
  /\ prev.out.kind = "return" /\ last.out.kind = "return"

PairSum == FAdd(prev.out.value, last.out.value)

EqualRatingsGiveHalf ==
  IsExpected(last) /\ last.va = last.vb => last.out = Return(Half)

SumTolerance == FRound(1, <<1>>, FALSE, -51)

C5_ExpectedRebindsMeanOnly ==
  /\ systems[Elo].dist.scale = EloQ
  /\ systems[Elo].dist.variance = ScaleToVariance(EloQ)
  /\ IsExpected(last) =>
       /\ systems[Elo].dist.mean = last.vb
       /\ systems = [last.before EXCEPT ![Elo].dist.mean = last.vb]
       /\ ratings[last.a] = last.va /\ ratings[last.b] = last.vb
       /\ last.out = Expected(NewSystem(Elo), last.va, last.vb).out
  /\ IsAdjustment(last) => systems = last.before

\* a call that found the mean left by an earlier call with another opponent
C5_Witness ==
  /\ IsExpected(last) /\ IsExpected(prev)
  /\ last.before[Elo].dist.mean # last.vb
  /\ last.va # last.vb
  /\ last.out.kind = "return"

\* C6: adjustment(ex, score, k) returns exactly k * (score - ex), k being 32
\* when left out, whatever the score, and changes no rating system
C6_AdjustmentIsLinear ==
  IsAdjustment(last) /\ last.sys = Elo =>
    LET k == IF last.k = <<>> THEN 32 ELSE last.k[1]
    IN  /\ last.out = Return(Quarters(k * (last.score - last.ex)))
        /\ systems = last.before

\* adjustment(0.5, 1) with k left out is 16, on an instance whose mean moved
C6_Witness ==
  /\ IsAdjustment(last) /\ last.sys = Elo
  /\ last.ex = 2 /\ last.score = 4 /\ last.k = <<>>
  /\ last.out = Return(FInt(16))
  /\ systems[Elo].dist.mean # FZero

Placeholders == {"RatingSystem", "GlickoRatingSystem", "Glicko2RatingSystem"}

\* C7: expected and adjustment on the abstract RatingSystem and on the Glicko
\* placeholders end in NotImplementedError and change no state
C7_PlaceholdersRaise ==
  last # NoCall /\ last.sys \in Placeholders =>
    /\ last.out = Raise("NotImplementedError")
    /\ systems = last.before

C7_Witness ==
  /\ IsExpected(last)
  /\ last.sys = "GlickoRatingSystem"
  /\ last.out.kind = "raise"
  /\ systems[Elo].dist.mean # FZero

\* what expected(a, b) returns on an instance no one else uses
RunAlone(t) ==
  Expected(NewSystem(Elo), ratings[targ[t][1]], ratings[targ[t][2]]).out

\* C9: a call of expected that does not overlap another one returns its
\* run-alone value (an overlapping call may not: C9_Witness)
C9_UnsharedCallsReturnRunAloneValue ==
  \A t \in Threads : pc[t] = "done" /\ alone[t] => tret[t] = RunAlone(t)

\* a call that returned the cdf taken with the other call's opponent as mean
C9_Witness ==
  \E t \in Threads :
    /\ pc[t] = "done" /\ pc[Other(t)] # "idle"
    /\ ratings[targ[t][2]] # ratings[targ[Other(t)][2]]
    /\ tret[t] # RunAlone(t)
    /\ tret[t] = LogisticCdf([systems[Elo].dist EXCEPT
                                !.mean = ratings[targ[Other(t)][2]]],
                             ratings[targ[t][1]])

====
